---------------------------- MODULE Spec2Model ----------------------------
(***************************************************************************)
(* Model of osp.py, the geni-lib profile that generates the request RSpec  *)
(* of a multi-node OpenStack + Kubernetes experiment: one controller, a    *)
(* user-chosen number of compute nodes, one LAN, and the controller's      *)
(* post-boot services.  The script is a straight-line program with one     *)
(* loop; every statement of it is one action, pc names the next statement. *)
(* The script is invoked once per generation run; the model runs it twice  *)
(* in fresh interpreters so that the outputs of two runs can be compared.  *)
(***************************************************************************)
EXTENDS Integers, Sequences, FiniteSets, TLC

VARIABLES
    run,              \* index of the current invocation of the script
    pc,               \* the statement the interpreter executes next
    params,           \* params = pc.bindParameters()
    request,          \* request.resources, in the order resources were added
    lan,              \* reference (index in request) of the LAN object
    controller,       \* reference (index in request) of the controller node
    iface_controller, \* interface returned by controller.addInterface
    it,               \* position of the iterator of range(computeNodeCount)
    i,                \* loop variable
    node_name,        \* loop-local name
    node,             \* reference (index in request) of the loop's node
    iface_compute,    \* interface returned by node.addInterface
    stdout,           \* the documents printed by this invocation
    history           \* (params, stdout) of the finished earlier invocations

vars == <<run, pc, params, request, lan, controller, iface_controller, it, i,
          node_name, node, iface_compute, stdout, history>>

-----------------------------------------------------------------------------
(* Bounds of the model *)

MaxCount == 10

(* The script is run this many times (self-composition for the claims that *)
(* compare two runs).                                                      *)
Invocations == {1, 2}

-----------------------------------------------------------------------------
(* Values the portal can bind to the five parameters.  The portal converts *)
(* an INTEGER parameter with int(), which accepts negative numbers; the    *)
(* NODETYPE selection can be cleared (empty string).                       *)

DefaultOsImage == "urn:publicid:IDN+emulab.net+image+emulab-ops:UBUNTU24-64-STD"
DefaultHwType == "d430"
DefaultUsername == "crookshanks"
DefaultPassword == "chocolateFrog!"

OsImages == {DefaultOsImage, "urn:publicid:IDN+emulab.net+image+emulab-ops:UBUNTU22-64-STD"}
HwTypes == {"", DefaultHwType}
ComputeNodeCounts == {-1, 0, 1, 2, MaxCount}
Usernames == {DefaultUsername, "hermione"}
Passwords == {DefaultPassword, "p w$0rd", ""}

ParameterSets ==
    [osImage : OsImages, hwType : HwTypes, computeNodeCount : ComputeNodeCounts,
     os_username : Usernames, os_password : Passwords]

None == "None"

-----------------------------------------------------------------------------
(* Pure helpers *)

DecimalDigits == <<"0", "1", "2", "3", "4", "5", "6", "7", "8", "9">>

(* str(n) for n >= 0, as "{}".format(n) renders an int *)
RECURSIVE IntToStr(_)
IntToStr(n) ==
    IF n < 10 THEN DecimalDigits[n + 1]
    ELSE IntToStr(n \div 10) \o DecimalDigits[(n % 10) + 1]

(* "compute-{}".format(i+1) *)
MutantNodeNameConstant(idx) == "compute-" \o IntToStr(1)
NodeName(idx) == "compute-" \o IntToStr(idx + 1)

(* range(n): the sequence 0, 1, ..., n-1; empty when n <= 0 *)
MutantRangeInclusive(n) == [k \in 1 .. (n + 1) |-> k - 1]
MutantRangeReversed(n) == [k \in 1 .. n |-> n - k]
Range(n) == [k \in 1 .. n |-> k - 1]

(* pg.Execute(shell=..., command=...) *)
Execute(shell, command) == [shell |-> shell, command |-> command]

ChmodInstallCommand == "sudo chmod +x /local/repository/scripts/01-install-openstack.sh"
InstallCommandTemplate == "sudo -H /local/repository/scripts/01-install-openstack.sh "
ChmodConfigureCommand == "sudo chmod +x /local/repository/scripts/02-configure-magnum.sh"
ConfigureCommand == "sudo -H /local/repository/scripts/02-configure-magnum.sh"

(* "sudo -H .../01-install-openstack.sh {}".format(params.os_password) *)
MutantInstallCommandQuoted(p) == InstallCommandTemplate \o "'" \o p.os_password \o "'"
MutantInstallCommandBoth(p) ==
    InstallCommandTemplate \o p.os_username \o " " \o p.os_password
InstallCommand(p) == InstallCommandTemplate \o p.os_password

(* request.RawPC(name): a node without image, hardware type, interfaces or *)
(* services                                                                *)
RawPC(name) == [kind |-> "RawPC", name |-> name, interfaces |-> <<>>, services |-> <<>>]

(* request.LAN(name): a LAN without member interfaces *)
LAN(name) == [kind |-> "LAN", name |-> name, interfaces |-> <<>>]

(* node.disk_image = image *)
SetDiskImage(n, image) == [disk_image |-> image] @@ n

(* if params.hwType: node.hardware_type = params.hwType *)
MutantSetHardwareTypeAlways(n, hwType) == [hardware_type |-> hwType] @@ n
SetHardwareType(n, hwType) ==
    IF hwType # "" THEN [hardware_type |-> hwType] @@ n ELSE n

(* node.addInterface("if0"): the new interface, owned by the node *)
Interface(n, name) == [node |-> n.name, name |-> name]

(* the node after addInterface appended the interface to node.interfaces *)
addInterface(n, name) ==
    [n EXCEPT !.interfaces = Append(@, Interface(n, name))]

(* lan.addInterface(iface) *)
lanAddInterface(l, iface) == [l EXCEPT !.interfaces = Append(@, iface)]

(* node.addService(svc): services are kept in attachment order *)
MutantAddServiceFront(n, svc) == [n EXCEPT !.services = <<svc>> \o @]
addService(n, svc) == [n EXCEPT !.services = Append(@, svc)]

(* the element the emitter writes for one resource *)
Element(r) ==
    IF r.kind = "RawPC"
    THEN [f \in DOMAIN r \ {"kind"} |-> r[f]] @@ [tag |-> "node"]
    ELSE [tag |-> "link", name |-> r.name, members |-> r.interfaces]

(* pc.printRequestRSpec(request): one element per resource, in the order   *)
(* the resources were added to the request                                 *)
Document(req) == [k \in 1 .. Len(req) |-> Element(req[k])]

(* the statement that follows a statement in the text of the script; the   *)
(* for statement chooses between its body and the statement after the loop *)
MutantFollowingServicesFirst(label) ==
    CASE label = "bindParameters" -> "makeRequestRSpec"
      [] label = "makeRequestRSpec" -> "LAN"
      [] label = "LAN" -> "controller"
      [] label = "controller" -> "controller_disk_image"
      [] label = "controller_disk_image" -> "controller_hardware_type"
      [] label = "controller_hardware_type" -> "addService1"
      [] label = "addService1" -> "addService2"
      [] label = "addService2" -> "addService3"
      [] label = "addService3" -> "addService4"
      [] label = "addService4" -> "iface_controller"
      [] label = "iface_controller" -> "lan_addInterface_controller"
      [] label = "lan_addInterface_controller" -> "for"
      [] label = "node_name" -> "node"
      [] label = "node" -> "node_disk_image"
      [] label = "node_disk_image" -> "node_hardware_type"
      [] label = "node_hardware_type" -> "iface_compute"
      [] label = "iface_compute" -> "lan_addInterface_compute"
      [] label = "lan_addInterface_compute" -> "for_next"
      [] label = "printRequestRSpec" -> "done"
Following(label) ==
    CASE label = "bindParameters" -> "makeRequestRSpec"
      [] label = "makeRequestRSpec" -> "LAN"
      [] label = "LAN" -> "controller"
      [] label = "controller" -> "controller_disk_image"
      [] label = "controller_disk_image" -> "controller_hardware_type"
      [] label = "controller_hardware_type" -> "iface_controller"
      [] label = "iface_controller" -> "lan_addInterface_controller"
      [] label = "lan_addInterface_controller" -> "addService1"
      [] label = "addService1" -> "addService2"
      [] label = "addService2" -> "addService3"
      [] label = "addService3" -> "addService4"
      [] label = "addService4" -> "for"
      [] label = "node_name" -> "node"
      [] label = "node" -> "node_disk_image"
      [] label = "node_disk_image" -> "node_hardware_type"
      [] label = "node_hardware_type" -> "iface_compute"
      [] label = "iface_compute" -> "lan_addInterface_compute"
      [] label = "lan_addInterface_compute" -> "for_next"
      [] label = "printRequestRSpec" -> "done"

-----------------------------------------------------------------------------
(* The interpreter state of a freshly started invocation *)

Fresh ==
    /\ pc = "bindParameters"
    /\ params = None
    /\ request = None
    /\ lan = None
    /\ controller = None
    /\ iface_controller = None
    /\ it = None
    /\ i = None
    /\ node_name = None
    /\ node = None
    /\ iface_compute = None
    /\ stdout = <<>>

Init ==
    /\ run = 1
    /\ history = <<>>
    /\ Fresh

-----------------------------------------------------------------------------
(* The statements of the script *)

(* params = pc.bindParameters() *)
bindParameters ==
    /\ pc = "bindParameters"
    /\ \E p \in ParameterSets : params' = p
    /\ pc' = Following(pc)
    /\ UNCHANGED <<run, request, lan, controller, iface_controller, it, i,
                   node_name, node, iface_compute, stdout, history>>

(* request = pc.makeRequestRSpec() *)
makeRequestRSpec ==
    /\ pc = "makeRequestRSpec"
    /\ request' = <<>>
    /\ pc' = Following(pc)
    /\ UNCHANGED <<run, params, lan, controller, iface_controller, it, i,
                   node_name, node, iface_compute, stdout, history>>

(* lan = request.LAN("lan") *)
requestLAN ==
    /\ pc = "LAN"
    /\ request' = Append(request, LAN("lan"))
    /\ lan' = Len(request) + 1
    /\ pc' = Following(pc)
    /\ UNCHANGED <<run, params, controller, iface_controller, it, i,
                   node_name, node, iface_compute, stdout, history>>

(* controller = request.RawPC("controller") *)
requestController ==
    /\ pc = "controller"
    /\ request' = Append(request, RawPC("controller"))
    /\ controller' = Len(request) + 1
    /\ pc' = Following(pc)
    /\ UNCHANGED <<run, params, lan, iface_controller, it, i,
                   node_name, node, iface_compute, stdout, history>>

(* controller.disk_image = params.osImage *)
controllerDiskImage ==
    /\ pc = "controller_disk_image"
    /\ request' = [request EXCEPT ![controller] = SetDiskImage(@, params.osImage)]
    /\ pc' = Following(pc)
    /\ UNCHANGED <<run, params, lan, controller, iface_controller, it, i,
                   node_name, node, iface_compute, stdout, history>>

(* if params.hwType: controller.hardware_type = params.hwType *)
controllerHardwareType ==
    /\ pc = "controller_hardware_type"
    /\ request' = [request EXCEPT ![controller] = SetHardwareType(@, params.hwType)]
    /\ pc' = Following(pc)
    /\ UNCHANGED <<run, params, lan, controller, iface_controller, it, i,
                   node_name, node, iface_compute, stdout, history>>

(* iface_controller = controller.addInterface("if0") *)
controllerAddInterface ==
    /\ pc = "iface_controller"
    /\ iface_controller' = Interface(request[controller], "if0")
    /\ request' = [request EXCEPT ![controller] = addInterface(@, "if0")]
    /\ pc' = Following(pc)
    /\ UNCHANGED <<run, params, lan, controller, it, i,
                   node_name, node, iface_compute, stdout, history>>

(* lan.addInterface(iface_controller) *)
lanAddInterfaceController ==
    /\ pc = "lan_addInterface_controller"
    /\ request' = [request EXCEPT ![lan] = lanAddInterface(@, iface_controller)]
    /\ pc' = Following(pc)
    /\ UNCHANGED <<run, params, lan, controller, iface_controller, it, i,
                   node_name, node, iface_compute, stdout, history>>

(* controller.addService(pg.Execute(shell="sh", command="sudo chmod +x .../01-install-openstack.sh")) *)
addService1 ==
    /\ pc = "addService1"
    /\ request' = [request EXCEPT ![controller] = addService(@, Execute("sh", ChmodInstallCommand))]
    /\ pc' = Following(pc)
    /\ UNCHANGED <<run, params, lan, controller, iface_controller, it, i,
                   node_name, node, iface_compute, stdout, history>>

(* controller.addService(pg.Execute(shell="sh", command="sudo -H .../01-install-openstack.sh {}".format(params.os_password))) *)
addService2 ==
    /\ pc = "addService2"
    /\ request' = [request EXCEPT ![controller] = addService(@, Execute("sh", InstallCommand(params)))]
    /\ pc' = Following(pc)
    /\ UNCHANGED <<run, params, lan, controller, iface_controller, it, i,
                   node_name, node, iface_compute, stdout, history>>

(* controller.addService(pg.Execute(shell="sh", command="sudo chmod +x .../02-configure-magnum.sh")) *)
addService3 ==
    /\ pc = "addService3"
    /\ request' = [request EXCEPT ![controller] = addService(@, Execute("sh", ChmodConfigureCommand))]
    /\ pc' = Following(pc)
    /\ UNCHANGED <<run, params, lan, controller, iface_controller, it, i,
                   node_name, node, iface_compute, stdout, history>>

(* controller.addService(pg.Execute(shell="sh", command="sudo -H .../02-configure-magnum.sh")) *)
addService4 ==
    /\ pc = "addService4"
    /\ request' = [request EXCEPT ![controller] = addService(@, Execute("sh", ConfigureCommand))]
    /\ pc' = Following(pc)
    /\ UNCHANGED <<run, params, lan, controller, iface_controller, it, i,
                   node_name, node, iface_compute, stdout, history>>

(* for i in range(params.computeNodeCount): the range is evaluated once    *)
(* and an iterator over it is created                                      *)
forIter ==
    /\ pc = "for"
    /\ it' = 0
    /\ pc' = "for_next"
    /\ UNCHANGED <<run, params, request, lan, controller, iface_controller, i,
                   node_name, node, iface_compute, stdout, history>>

(* the iterator yields the next index and the body runs, or it is          *)
(* exhausted and the loop is left                                          *)
forNext ==
    /\ pc = "for_next"
    /\ LET r == Range(params.computeNodeCount)
       IN  IF it < Len(r)
           THEN /\ i' = r[it + 1]
                /\ it' = it + 1
                /\ pc' = "node_name"
           ELSE /\ UNCHANGED <<i, it>>
                /\ pc' = "printRequestRSpec"
    /\ UNCHANGED <<run, params, request, lan, controller, iface_controller,
                   node_name, node, iface_compute, stdout, history>>

(* node_name = "compute-{}".format(i+1) *)
nodeName ==
    /\ pc = "node_name"
    /\ node_name' = NodeName(i)
    /\ pc' = Following(pc)
    /\ UNCHANGED <<run, params, request, lan, controller, iface_controller, it,
                   i, node, iface_compute, stdout, history>>

(* node = request.RawPC(node_name) *)
requestNode ==
    /\ pc = "node"
    /\ request' = Append(request, RawPC(node_name))
    /\ node' = Len(request) + 1
    /\ pc' = Following(pc)
    /\ UNCHANGED <<run, params, lan, controller, iface_controller, it, i,
                   node_name, iface_compute, stdout, history>>

(* node.disk_image = params.osImage *)
nodeDiskImage ==
    /\ pc = "node_disk_image"
    /\ request' = [request EXCEPT ![node] = SetDiskImage(@, params.osImage)]
    /\ pc' = Following(pc)
    /\ UNCHANGED <<run, params, lan, controller, iface_controller, it, i,
                   node_name, node, iface_compute, stdout, history>>

(* if params.hwType: node.hardware_type = params.hwType *)
nodeHardwareType ==
    /\ pc = "node_hardware_type"
    /\ request' = [request EXCEPT ![node] = SetHardwareType(@, params.hwType)]
    /\ pc' = Following(pc)
    /\ UNCHANGED <<run, params, lan, controller, iface_controller, it, i,
                   node_name, node, iface_compute, stdout, history>>

(* iface_compute = node.addInterface("if0") *)
nodeAddInterface ==
    /\ pc = "iface_compute"
    /\ iface_compute' = Interface(request[node], "if0")
    /\ request' = [request EXCEPT ![node] = addInterface(@, "if0")]
    /\ pc' = Following(pc)
    /\ UNCHANGED <<run, params, lan, controller, iface_controller, it, i,
                   node_name, node, stdout, history>>

(* lan.addInterface(iface_compute) *)
lanAddInterfaceCompute ==
    /\ pc = "lan_addInterface_compute"
    /\ request' = [request EXCEPT ![lan] = lanAddInterface(@, iface_compute)]
    /\ pc' = Following(pc)
    /\ UNCHANGED <<run, params, lan, controller, iface_controller, it, i,
                   node_name, node, iface_compute, stdout, history>>

(* pc.printRequestRSpec(request) *)
printRequestRSpec ==
    /\ pc = "printRequestRSpec"
    /\ stdout' = Append(stdout, Document(request))
    /\ pc' = Following(pc)
    /\ UNCHANGED <<run, params, request, lan, controller, iface_controller, it,
                   i, node_name, node, iface_compute, history>>

(* The script is invoked again, in a new interpreter: nothing of the       *)
(* finished invocation survives but what it printed.                       *)
Invoke ==
    /\ pc = "done"
    /\ run + 1 \in Invocations
    /\ run' = run + 1
    /\ history' = Append(history, [params |-> params, stdout |-> stdout])
    /\ pc' = "bindParameters"
    /\ params' = None
    /\ request' = None
    /\ lan' = None
    /\ controller' = None
    /\ iface_controller' = None
    /\ it' = None
    /\ i' = None
    /\ node_name' = None
    /\ node' = None
    /\ iface_compute' = None
    /\ stdout' = <<>>

Next ==
    \/ bindParameters
    \/ makeRequestRSpec
    \/ requestLAN
    \/ requestController
    \/ controllerDiskImage
    \/ controllerHardwareType
    \/ controllerAddInterface
    \/ lanAddInterfaceController
    \/ addService1
    \/ addService2
    \/ addService3
    \/ addService4
    \/ forIter
    \/ forNext
    \/ nodeName
    \/ requestNode
    \/ nodeDiskImage
    \/ nodeHardwareType
    \/ nodeAddInterface
    \/ lanAddInterfaceCompute
    \/ printRequestRSpec
    \/ Invoke

Spec == Init /\ [][Next]_vars

-----------------------------------------------------------------------------
(* Views of the state used by the properties *)

(* the parameters are bound once bindParameters has run *)
Bound == pc # "bindParameters"

(* the resources of the request; none before the request exists *)
Resources == IF pc \in {"bindParameters", "makeRequestRSpec"} THEN <<>> ELSE request

IsNode(r) == r.kind = "RawPC"
IsLink(r) == r.kind = "LAN"
Nodes == SelectSeq(Resources, IsNode)
Links == SelectSeq(Resources, IsLink)

IsNodeElement(e) == e.tag = "node"
IsLinkElement(e) == e.tag = "link"

(* the node and link records of the printed document *)
Doc == stdout[1]
DocNodes == SelectSeq(Doc, IsNodeElement)
DocLinks == SelectSeq(Doc, IsLinkElement)

Emitted == pc = "done" /\ Len(stdout) = 1

SeqToSet(s) == {s[k] : k \in 1 .. Len(s)}
Names(s) == [k \in 1 .. Len(s) |-> s[k].name]

(* number of compute nodes a run with this count creates *)
ComputeNodes(count) == IF count > 0 THEN count ELSE 0

-----------------------------------------------------------------------------
(* C1: for every computeNodeCount >= 0 a complete run creates exactly      *)
(* computeNodeCount + 1 nodes, exactly one of them the controller; with    *)
(* computeNodeCount = 0 the run completes and the controller is the only   *)
(* node.                                                                   *)
C1_NodeCount ==
    (pc \in {"printRequestRSpec", "done"} /\ params.computeNodeCount >= 0) =>
        /\ Len(Nodes) = params.computeNodeCount + 1
        /\ Cardinality({k \in 1 .. Len(Nodes) : Nodes[k].name = "controller"}) = 1
        /\ IsNode(request[controller]) /\ request[controller].name = "controller"
        /\ pc = "done" =>
            /\ Len(stdout) = 1
            /\ Len(DocNodes) = params.computeNodeCount + 1
            /\ Cardinality({k \in 1 .. Len(DocNodes) : DocNodes[k].name = "controller"}) = 1
            /\ params.computeNodeCount = 0 => Names(DocNodes) = <<"controller">>

C1_Witness ==
    /\ Emitted
    /\ params.computeNodeCount = 0
    /\ Len(DocNodes) = 1
    /\ DocNodes[1].name = "controller"

(* C2: in every state the names of the nodes created so far are pairwise   *)
(* distinct, and the names of a finished run are exactly "controller" and  *)
(* "compute-1" .. "compute-<computeNodeCount>"; computeNodeCount = 2 gives *)
(* controller, compute-1, compute-2.                                       *)
C2_UniqueNames ==
    /\ \A a, b \in 1 .. Len(Nodes) : a # b => Nodes[a].name # Nodes[b].name
    /\ pc = "done" =>
        /\ SeqToSet(Names(DocNodes)) =
               {"controller"} \cup
               {"compute-" \o ToString(k) : k \in 1 .. params.computeNodeCount}
        /\ params.computeNodeCount = 2 =>
               SeqToSet(Names(DocNodes)) = {"controller", "compute-1", "compute-2"}

C2_Witness ==
    /\ Emitted
    /\ params.computeNodeCount = MaxCount
    /\ Cardinality(SeqToSet(Names(DocNodes))) = MaxCount + 1
    /\ "compute-" \o ToString(MaxCount) \in SeqToSet(Names(DocNodes))

(* the interfaces of all nodes of a document *)
NodeInterfaces(nodes) ==
    UNION {SeqToSet(nodes[k].interfaces) : k \in 1 .. Len(nodes)}

(* C3: the printed document has exactly one link, every node has exactly   *)
(* one interface, and the link's members are exactly the interfaces of all *)
(* nodes, computeNodeCount + 1 of them, none twice and none left out.      *)
C3_LinkMembership ==
    pc = "done" =>
        /\ Len(DocLinks) = 1
        /\ \A k \in 1 .. Len(DocNodes) : Len(DocNodes[k].interfaces) = 1
        /\ SeqToSet(DocLinks[1].members) = NodeInterfaces(DocNodes)
        /\ Len(DocLinks[1].members) = Cardinality(SeqToSet(DocLinks[1].members))
        /\ Cardinality(SeqToSet(DocLinks[1].members)) = params.computeNodeCount + 1

(* the bring-up list the controller is to carry, written out *)
ExpectedServices(password) ==
    << [shell |-> "sh",
        command |-> "sudo chmod +x /local/repository/scripts/01-install-openstack.sh"],
       [shell |-> "sh",
        command |-> "sudo -H /local/repository/scripts/01-install-openstack.sh " \o password],
       [shell |-> "sh",
        command |-> "sudo chmod +x /local/repository/scripts/02-configure-magnum.sh"],
       [shell |-> "sh",
        command |-> "sudo -H /local/repository/scripts/02-configure-magnum.sh"] >>

IsPrefix(s, t) == Len(s) <= Len(t) /\ s = SubSeq(t, 1, Len(s))

ControllerServices == IF Len(Nodes) = 0 THEN <<>> ELSE Nodes[1].services

(* C4: the controller's bring-up list grows only by appending, in the      *)
(* order chmod install, run install with the password, chmod configure,    *)
(* run configure; it has exactly these four actions when the document is   *)
(* printed, and every compute node's list is empty.                        *)
C4_BringupOrder ==
    /\ [](/\ Bound => IsPrefix(ControllerServices, ExpectedServices(params.os_password))
          /\ \A k \in 1 .. Len(Nodes) :
                 Nodes[k].name # "controller" => Nodes[k].services = <<>>
          /\ pc = "done" =>
              /\ DocNodes[1].name = "controller"
              /\ DocNodes[1].services = ExpectedServices(params.os_password)
              /\ Len(DocNodes[1].services) = 4
              /\ \A k \in 2 .. Len(DocNodes) : DocNodes[k].services = <<>>)
    /\ [][run' = run => IsPrefix(ControllerServices, ControllerServices')]_vars

C4_Witness ==
    /\ Emitted
    /\ params.computeNodeCount >= 1
    /\ Len(DocNodes[1].services) = 4
    /\ DocNodes[2].services = <<>>

InstallScript == "sudo -H /local/repository/scripts/01-install-openstack.sh"

(* the text after the script path and the blank that separates it *)
Argument(cmd) == SubSeq(cmd, Len(InstallScript) + 2, Len(cmd))

(* C5: the second bring-up action runs the install script with the         *)
(* password, unchanged, as the only text after the script path; the other  *)
(* three actions are fixed commands without the password.                  *)
C5_PasswordVerbatim ==
    pc = "done" =>
        LET svc == DocNodes[1].services
            cmd == svc[2].command
        IN  /\ Len(cmd) = Len(InstallScript) + 1 + Len(params.os_password)
            /\ SubSeq(cmd, 1, Len(InstallScript)) = InstallScript
            /\ SubSeq(cmd, Len(InstallScript) + 1, Len(InstallScript) + 1) = " "
            /\ Argument(cmd) = params.os_password
            /\ svc[1].command = "sudo chmod +x /local/repository/scripts/01-install-openstack.sh"
            /\ svc[3].command = "sudo chmod +x /local/repository/scripts/02-configure-magnum.sh"
            /\ svc[4].command = "sudo -H /local/repository/scripts/02-configure-magnum.sh"

C5_Witness ==
    /\ Emitted
    /\ params.os_password = "chocolateFrog!"
    /\ params.computeNodeCount = 2
    /\ Argument(DocNodes[1].services[2].command) = "chocolateFrog!"

(* C6: a node carries a hardware constraint only if hwType is non-empty:   *)
(* with an empty hwType no node of the document has the field, with a      *)
(* non-empty hwType every node has it with that value; every node's disk   *)
(* image is the osImage parameter.                                         *)
C6_HardwareType ==
    /\ \A k \in 1 .. Len(Nodes) :
           "hardware_type" \in DOMAIN Nodes[k] =>
               params.hwType # "" /\ Nodes[k].hardware_type = params.hwType
    /\ pc = "done" =>
           \A k \in 1 .. Len(DocNodes) :
               /\ params.hwType = "" => "hardware_type" \notin DOMAIN DocNodes[k]
               /\ params.hwType # "" =>
                      /\ "hardware_type" \in DOMAIN DocNodes[k]
                      /\ DocNodes[k].hardware_type = params.hwType
               /\ "disk_image" \in DOMAIN DocNodes[k]
               /\ DocNodes[k].disk_image = params.osImage

C6_Witness ==
    /\ Emitted
    /\ params.hwType = ""
    /\ params.computeNodeCount >= 1
    /\ \A k \in 1 .. Len(DocNodes) : "hardware_type" \notin DOMAIN DocNodes[k]

(* the node names of a document for this count, in document order *)
ExpectedOrder(count) ==
    <<"controller">> \o [k \in 1 .. count |-> "compute-" \o ToString(k)]

(* C7: two runs with the same parameters print the same document; its      *)
(* nodes are the controller first, then the compute nodes in ascending     *)
(* index order, and the bring-up actions are in attachment order.          *)
C7_Deterministic ==
    pc = "done" =>
        /\ Names(DocNodes) = ExpectedOrder(params.computeNodeCount)
        /\ DocNodes[1].services = ExpectedServices(params.os_password)
        /\ (run = 2 /\ history[1].params = params) => history[1].stdout = stdout

C7_Witness ==
    /\ Emitted
    /\ run = 2
    /\ history[1].params = params
    /\ params.computeNodeCount = 2
    /\ history[1].stdout = stdout

(* C8: a negative computeNodeCount is rejected before anything is built:   *)
(* no node, link or bring-up action is created and no document is printed. *)
C8_NegativeRejected ==
    (Bound /\ params.computeNodeCount < 0) =>
        /\ Resources = <<>>
        /\ stdout = <<>>

(* all nodes the run is to create exist, each with its interface on the LAN *)
AllNodesBuilt ==
    /\ Len(Nodes) = 1 + ComputeNodes(params.computeNodeCount)
    /\ \A k \in 1 .. Len(Nodes) : Len(Nodes[k].interfaces) = 1
    /\ Len(Links) = 1
    /\ SeqToSet(Links[1].interfaces) = NodeInterfaces(Nodes)

SomeServiceAttached == \E k \in 1 .. Len(Nodes) : Nodes[k].services # <<>>

(* the document is printed at most once, by the last statement, and holds  *)
(* every node and every bring-up action                                    *)
EmittedOnceAtEnd ==
    /\ Len(stdout) <= 1
    /\ pc = "done" => Len(stdout) = 1
    /\ stdout # <<>> =>
        /\ pc = "done"
        /\ AllNodesBuilt
        /\ Len(ControllerServices) = 4
        /\ stdout[1] = Document(request)

(* C9 as stated: no bring-up action is attached before every node and its  *)
(* LAN interface exist, and the document is printed exactly once, after    *)
(* the last node and the last bring-up action.                             *)
C9_PhasesStrict ==
    /\ SomeServiceAttached => AllNodesBuilt
    /\ EmittedOnceAtEnd

(* C9 amended: nothing is built before the parameters are bound; bring-up  *)
(* actions are attached only to the controller, after the controller and   *)
(* its LAN interface exist and before any compute node is created; the     *)
(* document is printed exactly once, after the last node and the last      *)
(* bring-up action.                                                        *)
C9_PhasesAmended ==
    /\ pc = "bindParameters" => (request = None /\ stdout = <<>>)
    /\ SomeServiceAttached =>
        /\ Nodes[1].name = "controller"
        /\ Nodes[1].interfaces = <<[node |-> "controller", name |-> "if0"]>>
        /\ Links[1].interfaces[1] = [node |-> "controller", name |-> "if0"]
        /\ \A k \in 2 .. Len(Nodes) : Nodes[k].services = <<>>
    /\ Len(Nodes) > 1 => Len(ControllerServices) = 4
    /\ EmittedOnceAtEnd

C9_Witness ==
    /\ pc = "node_disk_image"
    /\ Len(ControllerServices) = 4
    /\ Len(Nodes) = 2
    /\ Nodes[2].interfaces = <<>>
    /\ stdout = <<>>

(* the parameters other than os_username *)
WithoutUsername(p) == [f \in DOMAIN p \ {"os_username"} |-> p[f]]

====
